---- MODULE Spec2Model ----
(***************************************************************************)
(* Model of JobPostProcessor (src/job_extractor.py): the credential pool   *)
(* (api_keys, current_key_index, failed_keys), the retrying service call   *)
(* _make_api_call_with_retry and extract_job_details.                      *)
(*                                                                         *)
(* Indices are 0-based as in the source.  A response text is a sequence   *)
(* of characters; the fence and whitespace characters are single          *)
(* characters, a JSON lexeme (brace, bracket, member, element, scalar) is *)
(* one indivisible element of the sequence.                                *)
(***************************************************************************)
EXTENDS Integers, Sequences, FiniteSets, TLC

\* ---- bounds of the model ------------------------------------------------
MaxKeys == 4
MaxRetries == 3
MaxPosts == 3
MaxBatchSize == 2
MaxBatchKeys == 2
MaxRuns == 2
MaxRunPosts == 2
MaxQueries == 2
MaxScrapePosts == 2
MaxPageLen == 2
MaxReturnCode == 2
MaxJobs == 2

\* ---- program constants --------------------------------------------------
DefaultMaxRetries == 3
FenceJsonLen == 7
FenceLen == 3
BackoffBase == 2
MinContentLen == 20
InterBatchDelay == 2
MaxScrollAttempts == 8

VARIABLES
    api_keys,           \* self.api_keys: index -> credential
    current_key_index,  \* self.current_key_index
    failed_keys,        \* self.failed_keys
    model,              \* credential self.model was configured with
    pc,                 \* position of the one thread of control
    caller,             \* who started the retrying call: "call" or "extract"
    max_retries,        \* parameter of the running _make_api_call_with_retry
    attempt,            \* loop variable of _make_api_call_with_retry
    outcome,            \* how the last _make_api_call_with_retry ended
    extracted,          \* how the last extract_job_details ended
    trace,              \* history: events of the running/last retrying call
    startFailed,        \* history: failed_keys when that call began
    rotLog,             \* history: the rotations of the processor's lifetime
    service,            \* environment: the texts and errors the service may answer
    failed_posts,       \* self.failed_posts
    posts,              \* process_posts_batch: the argument posts
    batch_size,         \* process_posts_batch: the argument batch_size
    i_batch,            \* process_posts_batch: the loop variable i
    post_ix,            \* process_posts_batch: position of `post` in the batch
    batch_results,      \* process_posts_batch: batch_results
    processed_jobs,     \* process_posts_batch: the local processed_jobs
    returned,           \* process_posts_batch: the value returned
    rpc,                \* position of process_posts_batch
    runLog,             \* history: the events of the run
    runs,               \* history: calls of process_posts_batch so far
    scraper,            \* the EnhancedLinkedInScraper session (src/lol.py)
    pipeline,           \* run_pipeline.main (src/run_pipeline.py)
    bot                 \* TelegramJobBot.send_job_notifications

runVars == <<failed_posts, posts, batch_size, i_batch, post_ix, batch_results,
             processed_jobs, returned, rpc, runLog, runs>>

\* the programs other than the processor
apartVars == <<scraper, pipeline, bot>>

\* the processor and its environment
procVars == <<api_keys, current_key_index, failed_keys, model, pc, caller,
              max_retries, attempt, outcome, extracted, trace, startFailed,
              rotLog, service, runVars>>

vars == <<api_keys, current_key_index, failed_keys, model, pc, caller,
          max_retries, attempt, outcome, extracted, trace, startFailed,
          rotLog, service, failed_posts, posts, batch_size, i_batch, post_ix,
          batch_results, processed_jobs, returned, rpc, runLog, runs, scraper, pipeline,
          bot>>

\* ---- Python values ------------------------------------------------------
PyStr(s) == [t |-> "str", v |-> s]
PyBool(b) == [t |-> "bool", v |-> IF b THEN "True" ELSE "False"]
PyInt(s) == [t |-> "int", v |-> s]
PyNone == [t |-> "none", v |-> "None"]

PyDict(d) == [kind |-> "dict", d |-> d, items |-> <<>>, val |-> PyNone]
PyList(items) == [kind |-> "list", d |-> <<>>, items |-> items, val |-> PyNone]
PyScalar(val) == [kind |-> "scalar", d |-> <<>>, items |-> <<>>, val |-> val]

\* ---- characters and lexemes of a response text ---------------------------
Ch(c) == [t |-> "ch", k |-> c, v |-> PyNone]
Member(k, v) == [t |-> "member", k |-> k, v |-> v]
Elem(v) == [t |-> "elem", k |-> "", v |-> v]
Scalar(v) == [t |-> "scalar", k |-> "", v |-> v]

Whitespace == {Ch(" "), Ch("\n")}

RECURSIVE LStrip(_)
LStrip(s) ==
    IF s # <<>> /\ Head(s) \in Whitespace THEN LStrip(Tail(s)) ELSE s

RECURSIVE RStrip(_)
RStrip(s) ==
    IF s # <<>> /\ s[Len(s)] \in Whitespace
    THEN RStrip(SubSeq(s, 1, Len(s) - 1))
    ELSE s

StripIdentity(s) == s

\* str.strip()
Strip(s) == RStrip(LStrip(s))

\* str.startswith(prefix)
StartsWith(s, prefix) ==
    /\ Len(s) >= Len(prefix)
    /\ SubSeq(s, 1, Len(prefix)) = prefix

\* s[start:-negEnd] for start >= 0, negEnd > 0
PySlice(s, start, negEnd) ==
    LET stop == IF Len(s) - negEnd > 0 THEN Len(s) - negEnd ELSE 0
    IN  IF stop <= start THEN <<>> ELSE SubSeq(s, start + 1, stop)

Backtick == Ch("backtick")
FenceJson == <<Backtick, Backtick, Backtick, Ch("j"), Ch("s"), Ch("o"), Ch("n")>>
Fence == <<Backtick, Backtick, Backtick>>

\* ---- results and exceptions -----------------------------------------------
Exc(cls, msg) == [cls |-> cls, msg |-> msg]
NoExc == Exc("", <<>>)
Ok(v) == [raised |-> FALSE, exc |-> NoExc, value |-> v]
Raise(e) == [raised |-> TRUE, exc |-> e, value |-> PyScalar(PyNone)]

\* ---- json.loads on a lexeme sequence ---------------------------------------
NotWhitespace(c) == c \notin Whitespace

Interior(t) == SelectSeq(SubSeq(t, 2, Len(t) - 1), NotWhitespace)

\* dict built from the members in order: a repeated key keeps its last value
DictOf(ms) ==
    [k \in {ms[i].k : i \in 1..Len(ms)} |->
        LET last == CHOOSE i \in 1..Len(ms) :
                        /\ ms[i].k = k
                        /\ \A j \in (i + 1)..Len(ms) : ms[j].k # k
        IN  ms[last].v]

JsonLoads(s) ==
    LET t == Strip(s)
    IN  IF Len(t) = 1 /\ t[1].t = "scalar"
        THEN Ok(PyScalar(t[1].v))
        ELSE IF /\ Len(t) >= 2
                /\ t[1] = Ch("{")
                /\ t[Len(t)] = Ch("}")
                /\ \A i \in 1..Len(Interior(t)) : Interior(t)[i].t = "member"
        THEN Ok(PyDict(DictOf(Interior(t))))
        ELSE IF /\ Len(t) >= 2
                /\ t[1] = Ch("[")
                /\ t[Len(t)] = Ch("]")
                /\ \A i \in 1..Len(Interior(t)) : Interior(t)[i].t = "elem"
        THEN Ok(PyList([i \in 1..Len(Interior(t)) |-> Interior(t)[i].v]))
        ELSE Raise(Exc("JSONDecodeError", <<>>))

\* ---- extract_job_details ---------------------------------------------------
required_fields ==
    <<"company_name", "job_title", "location", "experience_required",
      "salary_range", "job_type", "skills_required", "contact_info",
      "application_method", "job_description", "remote_work", "urgency",
      "benefits", "is_valid_job">>

RequiredFieldSet == {required_fields[i] : i \in 1..Len(required_fields)}

DefaultResultInvalidTrue ==
    PyDict([f \in RequiredFieldSet |->
        IF f = "urgency" THEN PyStr("Normal")
        ELSE IF f = "is_valid_job" THEN PyBool(TRUE)
        ELSE PyStr("Not specified")])

\* the dict literal of the except branch
DefaultResult ==
    PyDict([f \in RequiredFieldSet |->
        IF f = "urgency" THEN PyStr("Normal")
        ELSE IF f = "is_valid_job" THEN PyBool(FALSE)
        ELSE PyStr("Not specified")])

CleanResponseFenceOnly(text) ==
    IF StartsWith(text, Fence) THEN PySlice(text, FenceLen, FenceLen) ELSE text

\* the cleanup of the response text before json.loads
CleanResponse(text) ==
    IF StartsWith(text, FenceJson) THEN PySlice(text, FenceJsonLen, FenceLen)
    ELSE IF StartsWith(text, Fence) THEN PySlice(text, FenceLen, FenceLen)
    ELSE text

\* `field in job_data`: membership of a key (dict), of an element (list), a
\* substring test (str; the strings of this model are atoms, none a proper
\* substring of another), TypeError for None, numbers and booleans.
PyIn(field, obj) ==
    IF obj.kind = "dict" THEN Ok(field \in DOMAIN obj.d)
    ELSE IF obj.kind = "list"
    THEN Ok(\E i \in 1..Len(obj.items) : obj.items[i] = PyStr(field))
    ELSE IF obj.val.t = "str" THEN Ok(obj.val.v = field)
    ELSE Raise(Exc("TypeError", <<>>))

\* `job_data[field] = value`
PySetItem(obj, field, value) ==
    IF obj.kind = "dict"
    THEN Ok(PyDict([k \in DOMAIN obj.d \cup {field} |->
                        IF k = field THEN value ELSE obj.d[k]]))
    ELSE Raise(Exc("TypeError", <<>>))

\* the loop over required_fields, from field number i on
RECURSIVE FillFrom(_, _)
FillFrom(obj, i) ==
    IF i > Len(required_fields) THEN Ok(obj)
    ELSE LET has == PyIn(required_fields[i], obj)
         IN  IF has.raised THEN has
             ELSE IF has.value THEN FillFrom(obj, i + 1)
             ELSE LET set == PySetItem(obj, required_fields[i],
                                       PyStr("Not specified"))
                  IN  IF set.raised THEN set ELSE FillFrom(set.value, i + 1)

FillDefaults(obj) == FillFrom(obj, 1)

\* `except Exception`: every exception class of this model derives from it
ExceptionClasses == {"Exception", "ServiceError", "JSONDecodeError", "TypeError"}
ExceptException(e) == e.cls \in ExceptionClasses

\* extract_job_details from the point where the retrying call has ended with o
ExtractJobDetails(o) ==
    LET body ==
            IF o.raised THEN Raise(o.exc)
            ELSE LET parsed == JsonLoads(CleanResponse(o.value))
                 IN  IF parsed.raised THEN parsed
                     ELSE FillDefaults(parsed.value)
    IN  IF body.raised /\ ExceptException(body.exc)
        THEN Ok(DefaultResult)
        ELSE body

\* ---- the service's possible answers ------------------------------------------
Space == Ch(" ")
Newline == Ch("\n")

FullMembers(valid) ==
    [i \in 1..Len(required_fields) |->
        Member(required_fields[i],
               IF required_fields[i] = "is_valid_job" THEN PyBool(valid)
               ELSE IF required_fields[i] = "urgency" THEN PyStr("Urgent")
               ELSE PyStr("Acme"))]

PartialMembers ==
    <<Member("company_name", PyStr("Acme")),
      Member("job_title", PyStr("Engineer")),
      Member("is_valid_job", PyBool(TRUE))>>

Object(ms) == <<Ch("{")>> \o ms \o <<Ch("}")>>
Array(es) == <<Ch("[")>> \o es \o <<Ch("]")>>

AllNamesArray ==
    Array([i \in 1..Len(required_fields) |-> Elem(PyStr(required_fields[i]))])

Responses ==
    { Object(FullMembers(TRUE)),
      Object(FullMembers(FALSE)),
      <<Space>> \o Object(PartialMembers) \o <<Newline>>,
      FenceJson \o <<Newline>> \o Object(PartialMembers) \o <<Newline>> \o Fence,
      Fence \o <<Newline>> \o Object(PartialMembers) \o <<Newline>> \o Fence,
      FenceJson \o <<Newline>> \o Object(PartialMembers),
      FenceJson \o Object(PartialMembers) \o Fence,
      Fence \o Object(FullMembers(TRUE)) \o <<Newline>> \o Fence,
      Object(<<>>),
      <<Ch("S"), Ch("o"), Ch("r"), Ch("r"), Ch("y")>>,
      <<Newline>>,
      AllNamesArray,
      Array(<<Elem(PyStr("company_name"))>>),
      <<Scalar(PyNone)>>,
      <<Scalar(PyInt("5"))>>,
      <<Scalar(PyStr("hello"))>> }

\* error texts as sequences of fragments
ErrorMessages ==
    { <<"429 ", "Quota", " exceeded">>,
      <<"API_KEY_", "INVALID">>,
      <<"403 ", "Forbidden">>,
      <<"503 ", "timeout">> }

\* str.lower() on a fragment
Lower(frag) ==
    IF frag = "Quota" THEN "quota"
    ELSE IF frag = "INVALID" THEN "invalid"
    ELSE IF frag = "Forbidden" THEN "forbidden"
    ELSE IF frag = "API_KEY_" THEN "api_key_"
    ELSE frag

\* `marker in str(e).lower()`
ContainsLower(msg, marker) == \E i \in 1..Len(msg) : Lower(msg[i]) = marker

IsKeyErrorCaseSensitive(msg) ==
    \E i \in 1..Len(msg) : msg[i] \in {"quota", "invalid", "forbidden"}

\* the classification of line 75
IsKeyError(msg) ==
    \/ ContainsLower(msg, "quota")
    \/ ContainsLower(msg, "invalid")
    \/ ContainsLower(msg, "forbidden")

\* ---- the credential pool -----------------------------------------------------
NumKeys(keys) == Cardinality(DOMAIN keys)

Credential(i) == <<"key", i>>

AvailableKeys(n, failed) == {i \in 0..(n - 1) : i \notin failed}

FirstAvailableHighest(n, failed) ==
    CHOOSE i \in AvailableKeys(n, failed) :
        \A j \in AvailableKeys(n, failed) : j <= i

\* the first i of `for i in range(len(self.api_keys))` with i not in failed_keys
FirstAvailable(n, failed) ==
    CHOOSE i \in AvailableKeys(n, failed) :
        \A j \in AvailableKeys(n, failed) : i <= j

MarkFailedForgetting(failed, cur) == {cur}
MarkFailedWithNext(failed, cur) == failed \cup {cur, cur + 1}

\* self.failed_keys.add(self.current_key_index)
MarkFailed(failed, cur) == failed \cup {cur}

rotate_api_key_keep_index(n, cur, failed) ==
    [ok |-> AvailableKeys(n, MarkFailed(failed, cur)) # {},
     cur |-> cur,
     failed |-> MarkFailed(failed, cur)]

\* _rotate_api_key: the new failed_keys and current_key_index and the value returned
rotate_api_key(n, cur, failed) ==
    LET marked == MarkFailed(failed, cur)
    IN  IF AvailableKeys(n, marked) # {}
        THEN [ok |-> TRUE, cur |-> FirstAvailable(n, marked), failed |-> marked]
        ELSE [ok |-> FALSE, cur |-> cur, failed |-> marked]

\* get_api_key_stats: the numbers it reports
get_api_key_stats(keys, cur, failed) ==
    [total |-> NumKeys(keys),
     failed |-> Cardinality(failed),
     working |-> NumKeys(keys) - Cardinality(failed),
     current |-> cur + 1]

BackoffLinear(a) == BackoffBase * a
BackoffConstant(a) == BackoffBase

\* time.sleep(2 ** attempt)
Backoff(a) == BackoffBase ^ a

\* ---- history events ------------------------------------------------------------
\* request: key = credential index used, at = loop index, ok = key not in failed_keys
\* success: the request of loop index at returned a response with text msg
\* error:   the request of loop index at raised msg
\* rotate:  key = index marked failed, n = current_key_index afterwards, ok = value returned
\* sleep:   n = duration of the backoff sleep taken at loop index at
Ev(e, key, at, n, ok, msg) ==
    [e |-> e, key |-> key, at |-> at, n |-> n, ok |-> ok, msg |-> msg,
     text |-> <<>>]
\* the event of a response: its text as received
Received(key, at, text) ==
    [Ev("success", key, at, 0, TRUE, <<>>) EXCEPT !.text = text]

NoOutcome == [raised |-> FALSE, exc |-> Exc("pending", <<>>), value |-> <<>>]
NoExtract ==
    [raised |-> FALSE, exc |-> Exc("pending", <<>>), value |-> PyScalar(PyNone)]

AllKeysExhausted == Exc("Exception", <<"All API keys exhausted">>)
FailedAfterAttempts == Exc("Exception", <<"Failed after max_retries attempts">>)

\* the calls of process_posts_batch a processor gets in its life: how many, and
\* with which posts and batch sizes
Workload(inputs, sizes, calls) ==
    [inputs |-> inputs, sizes |-> sizes, calls |-> calls]

\* dict.get(key, default) on a post
PostGet(post, key, default) == IF key \in DOMAIN post THEN post[key] ELSE default

ContentLong == [k \in 1..MinContentLen |-> Ch("x")]
ContentPadded ==
    <<Space>> \o [k \in 1..(MinContentLen - 1) |-> Ch("x")] \o <<Newline>>

\* the posts of the model: no Content key, empty content, 19 characters inside
\* whitespace, 20 characters
PostItems ==
    { << >>,
      [Content |-> << >>],
      [Content |-> ContentPadded],
      [Content |-> ContentLong] }

PostSeqs == UNION {[1..n -> PostItems] : n \in 0..MaxPosts}

\* one call, with any of the posts and batch sizes of the model
OneRun == Workload("PostSeqs", 1..MaxBatchSize, 1)

\* the posts of the calls when a processor gets several
RunItems == { << >>, [Content |-> ContentLong] }
RunPostSeqs == UNION {[1..n -> RunItems] : n \in 0..MaxRunPosts}

\* the lists of posts a workload names
InputsOf(work) ==
    IF work.inputs = "PostSeqs" THEN PostSeqs
    ELSE IF work.inputs = "RunPostSeqs" THEN RunPostSeqs
    ELSE {}

\* EnhancedLinkedInScraper.__init__, and the locals of scrape_search_results
\* (none running yet); rows: the rows written to the CSV files of the session
NewScraper ==
    [scraped_post_ids |-> {}, at |-> "idle", query |-> 0, max_posts |-> 0,
     posts_found |-> 0, scroll_attempts |-> 0, page |-> << >>, pos |-> 0,
     rows |-> << >>]

\* run_pipeline.main before it runs: dir is the working directory, out what it
\* printed and started, csv_files and summary_files the results of glob
NewPipeline ==
    [at |-> "start", dir |-> {}, csv_files |-> {}, summary_files |-> {},
     out |-> << >>]

\* TelegramJobBot before send_job_notifications runs: its arguments and locals,
\* sent: the requests posted to Telegram, with whether each was accepted
NewBot ==
    [at |-> "start", jobs |-> << >>,
     csv_file |-> [given |-> FALSE, exists |-> FALSE],
     summary_file |-> [given |-> FALSE, exists |-> FALSE],
     i |-> 0, success_count |-> 0, sent |-> << >>, result |-> "none"]

\* ---- the state machine -----------------------------------------------------------
\* JobPostProcessor(gemini_api_keys) with n keys, 1 <= n <= maxN (none raises
\* in __init__), facing a service that answers with the given texts and errors
Construct(maxN, texts, errors, work) ==
    /\ \E n \in 1..maxN : api_keys = [i \in 0..(n - 1) |-> Credential(i)]
    /\ service = [texts |-> texts, errors |-> errors, work |-> work]
    /\ runs = 0
    /\ scraper = NewScraper
    /\ pipeline = NewPipeline
    /\ bot = NewBot
    /\ failed_posts = <<>>
    /\ posts = <<>>
    /\ batch_size = 1
    /\ i_batch = 0
    /\ post_ix = 1
    /\ batch_results = <<>>
    /\ processed_jobs = <<>>
    /\ returned = <<>>
    /\ rpc = "none"
    /\ runLog = <<>>
    /\ current_key_index = 0
    /\ failed_keys = {}
    /\ model = Credential(0)
    /\ pc = "idle"
    /\ caller = "none"
    /\ max_retries = DefaultMaxRetries
    /\ attempt = 0
    /\ outcome = NoOutcome
    /\ extracted = NoExtract
    /\ trace = <<>>
    /\ startFailed = {}
    /\ rotLog = <<>>

Init == Construct(MaxKeys, Responses, ErrorMessages, OneRun)

\* the retrying call ends with o; extract_job_details, when it is the caller,
\* runs to its end on it
Finish(o) ==
    /\ pc' = "done"
    /\ outcome' = o
    /\ extracted' = IF caller = "extract" THEN ExtractJobDetails(o) ELSE NoExtract

\* `continue`: the next iteration of `for attempt in range(max_retries)`, or the
\* raise after the loop
Continue ==
    /\ attempt' = attempt + 1
    /\ IF attempt + 1 < max_retries
       THEN /\ pc' = "loop"
            /\ UNCHANGED <<outcome, extracted>>
       ELSE Finish(Raise(FailedAfterAttempts))

BeginDroppingFailedKeys(c, m) ==
    /\ pc \in {"idle", "done"}
    /\ caller' = c
    /\ max_retries' = m
    /\ attempt' = 0
    /\ trace' = <<>>
    /\ startFailed' = failed_keys
    /\ outcome' = NoOutcome
    /\ extracted' = NoExtract
    /\ pc' = "loop"
    /\ api_keys' = [i \in (DOMAIN api_keys) \ failed_keys |-> api_keys[i]]
    /\ UNCHANGED <<current_key_index, failed_keys, model, rotLog, service>>

Begin(c, m) ==
    /\ pc \in {"idle", "done"}
    /\ caller' = c
    /\ max_retries' = m
    /\ attempt' = 0
    /\ trace' = <<>>
    /\ startFailed' = failed_keys
    /\ outcome' = NoOutcome
    /\ extracted' = NoExtract
    /\ pc' = "loop"
    /\ UNCHANGED <<api_keys, current_key_index, failed_keys, model, rotLog,
                   service>>

\* _make_api_call_with_retry(prompt, max_retries) called on its own
make_api_call_with_retry ==
    /\ rpc = "none"
    /\ \E m \in 1..MaxRetries : Begin("call", m)
    /\ UNCHANGED <<runVars, apartVars>>

\* extract_job_details, called on its own, up to its call of
\* _make_api_call_with_retry(prompt)
extract_job_details ==
    /\ rpc = "none"
    /\ Begin("extract", DefaultMaxRetries)
    /\ UNCHANGED <<runVars, apartVars>>

\* self.model.generate_content(prompt) is issued
generate_content ==
    /\ pc = "loop"
    /\ attempt < max_retries
    /\ trace' = Append(trace, Ev("request", current_key_index, attempt, 0,
                                 current_key_index \notin failed_keys, <<>>))
    /\ pc' = "inflight"
    /\ UNCHANGED <<api_keys, current_key_index, failed_keys, model, caller,
                   max_retries, attempt, outcome, extracted, startFailed,
                   rotLog, service>>
    /\ UNCHANGED <<runVars, apartVars>>

\* the request returns: `return response.text.strip()`
ServiceReturns ==
    /\ pc = "inflight"
    /\ \E text \in service.texts :
        /\ trace' = Append(trace, Received(current_key_index, attempt, text))
        /\ Finish(Ok(Strip(text)))
    /\ UNCHANGED <<api_keys, current_key_index, failed_keys, model, caller,
                   max_retries, attempt, startFailed, rotLog, service>>
    /\ UNCHANGED <<runVars, apartVars>>

\* the request raises e with str(e) = msg: the except branch
ServiceRaises ==
    /\ pc = "inflight"
    /\ \E msg \in service.errors :
        LET err == Ev("error", current_key_index, attempt, 0, FALSE, msg)
        IN  IF IsKeyError(msg)
            THEN LET r == rotate_api_key(NumKeys(api_keys), current_key_index,
                                         failed_keys)
                 IN  /\ failed_keys' = r.failed
                     /\ current_key_index' = r.cur
                     /\ model' = IF r.ok THEN api_keys[r.cur] ELSE model
                     /\ rotLog' = IF Len(rotLog) <= NumKeys(api_keys)
                                  THEN Append(rotLog, [key |-> current_key_index,
                                                       ok |-> r.ok])
                                  ELSE rotLog
                     /\ trace' = trace \o
                            <<err, Ev("rotate", current_key_index, attempt,
                                      r.cur, r.ok, <<>>)>>
                     /\ IF r.ok
                        THEN Continue
                        ELSE /\ Finish(Raise(AllKeysExhausted))
                             /\ UNCHANGED attempt
            ELSE /\ UNCHANGED <<failed_keys, current_key_index, model, rotLog>>
                 /\ IF attempt < max_retries - 1
                    THEN /\ trace' = trace \o
                                <<err, Ev("sleep", current_key_index, attempt,
                                          Backoff(attempt), TRUE, <<>>)>>
                         /\ Continue
                    ELSE /\ trace' = Append(trace, err)
                         /\ Finish(Raise(Exc("ServiceError", msg)))
                         /\ UNCHANGED attempt
    /\ UNCHANGED <<api_keys, caller, max_retries, startFailed, service>>
    /\ UNCHANGED <<runVars, apartVars>>

Next ==
    \/ make_api_call_with_retry
    \/ extract_job_details
    \/ generate_content
    \/ ServiceReturns
    \/ ServiceRaises

Spec == Init /\ [][Next]_vars

\* ---- process_posts_batch ------------------------------------------------------------
IsShortNoStrip(content) == Len(content) < MinContentLen

\* len(content.strip()) < 20
IsShort(content) == Len(Strip(content)) < MinContentLen

BatchSliceShort(ps, i, bs) ==
    SubSeq(ps, i + 1, IF i + bs - 1 < Len(ps) THEN i + bs - 1 ELSE Len(ps))

\* posts[i:i + batch_size]
BatchSlice(ps, i, bs) ==
    SubSeq(ps, i + 1, IF i + bs < Len(ps) THEN i + bs ELSE Len(ps))

\* bool(value)
Truthy(v) ==
    IF v.t = "bool" THEN v.v = "True"
    ELSE IF v.t = "str" THEN v.v # ""
    ELSE IF v.t = "int" THEN v.v # "0"
    ELSE FALSE

\* job_details.get(key, default): AttributeError unless job_details is a dict
PyGet(obj, key, default) ==
    IF obj.kind = "dict"
    THEN Ok(IF key \in DOMAIN obj.d THEN obj.d[key] ELSE default)
    ELSE Raise(Exc("AttributeError", <<>>))

\* the metadata of lines 241-248 for a post
PostMeta(post) ==
    [original_author |-> PyStr(PostGet(post, "Author", "Unknown")),
     post_time |-> PyStr(PostGet(post, "Time", "")),
     source_file |-> PyStr(PostGet(post, "source_file", "Unknown")),
     post_url |-> PyStr(PostGet(post, "URL", "Not available")),
     query_name |-> PyStr(PostGet(post, "Query_Name", "Unknown")),
     processed_at |-> PyStr("now")]

\* job_details.update(meta)
PyUpdate(obj, meta) ==
    PyDict([k \in DOMAIN obj.d \cup DOMAIN meta |->
                IF k \in DOMAIN meta THEN meta[k] ELSE obj.d[k]])

BatchExceptOnlyValueError(e) == e.cls \in {"JSONDecodeError"}

\* `except Exception` of line 252
BatchExceptionClasses == ExceptionClasses \cup {"AttributeError"}
BatchExcept(e) == e.cls \in BatchExceptionClasses

\* lines 236-250 on the result r of extract_job_details for post: what happens
\* to the item, and the validity flag read
HandleExtracted(r, post) ==
    IF r.raised
    THEN [kind |-> IF BatchExcept(r.exc) THEN "fail" ELSE "raise",
          flag |-> PyNone, job |-> PyDict(<< >>)]
    ELSE LET g == PyGet(r.value, "is_valid_job", PyBool(FALSE))
         IN  IF g.raised
             THEN [kind |-> IF BatchExcept(g.exc) THEN "fail" ELSE "raise",
                   flag |-> PyNone, job |-> PyDict(<< >>)]
             ELSE IF Truthy(g.value)
             THEN [kind |-> "append", flag |-> g.value,
                   job |-> PyUpdate(r.value, PostMeta(post))]
             ELSE [kind |-> "drop", flag |-> g.value, job |-> PyDict(<< >>)]

ExtendTwice(processed, results) == processed \o results \o results
ExtendInFront(processed, results) == results \o processed

\* processed_jobs.extend(batch_results)
Extend(processed, results) == processed \o results

RecordFailureNot(failed, entry) == failed

\* self.failed_posts.append(post)
RecordFailure(failed, entry) == Append(failed, entry)

NeedsPauseAlsoAtEnd(i, bs, n) == i + bs <= n

\* if i + batch_size < len(posts)
NeedsPause(i, bs, n) == i + bs < n

\* the next i of range(0, len(posts), batch_size), if any
HasNextBatch(i, bs, n) == i + bs < n

\* history events of a run; idx is the 1-based position of an item in posts
\* batch:   the batch posts[lo..hi] begins
\* skip:    item idx is skipped as too short
\* extract: extract_job_details is called for item idx
\* append, drop, fail: how item idx ended, flag the validity flag read
\* extend:  the results of the batch posts[lo..hi] join processed_jobs
\* pause:   time.sleep(lo) between batches
\* return:  the run returns
Rv(e, idx, lo, hi, flag) ==
    [e |-> e, idx |-> idx, lo |-> lo, hi |-> hi, flag |-> flag]

BatchEvent(ps, i, bs) ==
    Rv("batch", 0, i + 1, i + Len(BatchSlice(ps, i, bs)), PyNone)

\* the item at post_ix is dealt with: the next post of the batch, or the end
\* of the batch and then the next batch or the return
Advance(results, log) ==
    IF post_ix < Len(BatchSlice(posts, i_batch, batch_size))
    THEN /\ post_ix' = post_ix + 1
         /\ batch_results' = results
         /\ runLog' = log
         /\ rpc' = "item"
         /\ UNCHANGED <<i_batch, processed_jobs, returned>>
    ELSE LET all == Extend(processed_jobs, results)
             ext == Rv("extend", 0, i_batch + 1,
                       i_batch + Len(BatchSlice(posts, i_batch, batch_size)),
                       PyNone)
             slept == IF NeedsPause(i_batch, batch_size, Len(posts))
                      THEN <<Rv("pause", 0, InterBatchDelay, 0, PyNone)>>
                      ELSE << >>
         IN  /\ processed_jobs' = all
             /\ IF HasNextBatch(i_batch, batch_size, Len(posts))
                THEN /\ i_batch' = i_batch + batch_size
                     /\ post_ix' = 1
                     /\ batch_results' = << >>
                     /\ rpc' = "item"
                     /\ runLog' = log \o <<ext>> \o slept \o
                            <<BatchEvent(posts, i_batch + batch_size,
                                         batch_size)>>
                     /\ UNCHANGED returned
                ELSE /\ rpc' = "returned"
                     /\ returned' = all
                     /\ runLog' = log \o <<ext>> \o slept \o
                            <<Rv("return", 0, 0, 0, PyNone)>>
                     /\ UNCHANGED <<i_batch, post_ix>>
                     /\ batch_results' = results

CurrentIdx == i_batch + post_ix
CurrentPost == posts[CurrentIdx]

\* process_posts_batch(posts, batch_size) is called
process_posts_batch ==
    /\ rpc \in {"none", "returned"}
    /\ pc = "idle"
    /\ runs < service.work.calls
    /\ runs' = runs + 1
    /\ UNCHANGED apartVars
    /\ \E ps \in InputsOf(service.work), bs \in service.work.sizes :
        /\ posts' = ps
        /\ batch_size' = bs
        /\ processed_jobs' = << >>
        /\ i_batch' = 0
        /\ post_ix' = 1
        /\ batch_results' = << >>
        /\ IF Len(ps) = 0
           THEN /\ rpc' = "returned"
                /\ returned' = << >>
                /\ runLog' = <<Rv("return", 0, 0, 0, PyNone)>>
           ELSE /\ rpc' = "item"
                /\ runLog' = <<BatchEvent(ps, 0, bs)>>
                /\ UNCHANGED returned
    /\ UNCHANGED <<api_keys, current_key_index, failed_keys, model, pc, caller,
                   max_retries, attempt, outcome, extracted, trace,
                   startFailed, rotLog, service, failed_posts>>

\* lines 229-234: the post is too short, `continue`
SkipShort ==
    /\ rpc = "item"
    /\ IsShort(PostGet(CurrentPost, "Content", << >>))
    /\ Advance(batch_results,
               Append(runLog, Rv("skip", CurrentIdx, 0, 0, PyNone)))
    /\ UNCHANGED <<api_keys, current_key_index, failed_keys, model, pc, caller,
                   max_retries, attempt, outcome, extracted, trace,
                   startFailed, rotLog, service, failed_posts, posts,
                   batch_size, runs, apartVars>>

\* line 236: extract_job_details is called for the post
CallExtract ==
    /\ rpc = "item"
    /\ ~IsShort(PostGet(CurrentPost, "Content", << >>))
    /\ Begin("extract", DefaultMaxRetries)
    /\ rpc' = "extracting"
    /\ runLog' = Append(runLog, Rv("extract", CurrentIdx, 0, 0, PyNone))
    /\ UNCHANGED <<failed_posts, posts, batch_size, i_batch, post_ix,
                   batch_results, processed_jobs, returned, runs, apartVars>>

\* lines 236-255 from the return of extract_job_details on
ItemDone ==
    /\ rpc = "extracting"
    /\ pc = "done"
    /\ LET h == HandleExtracted(extracted, CurrentPost)
           ev == Rv(h.kind, CurrentIdx, 0, 0, h.flag)
       IN  IF h.kind = "raise"
           THEN /\ rpc' = "raised"
                /\ runLog' = Append(runLog, ev)
                /\ UNCHANGED <<failed_posts, i_batch, post_ix, batch_results,
                               processed_jobs, returned>>
           ELSE /\ failed_posts' =
                    IF h.kind = "fail"
                    THEN RecordFailure(failed_posts,
                                       [src |-> CurrentIdx, post |-> CurrentPost])
                    ELSE failed_posts
                /\ Advance(IF h.kind = "append"
                           THEN Append(batch_results,
                                       [src |-> CurrentIdx, job |-> h.job])
                           ELSE batch_results,
                           Append(runLog, ev))
    /\ pc' = "idle"
    /\ caller' = "none"
    /\ attempt' = 0
    /\ outcome' = NoOutcome
    /\ extracted' = NoExtract
    /\ trace' = << >>
    /\ UNCHANGED <<api_keys, current_key_index, failed_keys, model,
                   max_retries, startFailed, rotLog, service, posts,
                   batch_size, runs, apartVars>>

\* the texts and errors of the service in the runs of process_posts_batch
BatchResponses ==
    { Object(FullMembers(TRUE)),
      Object(FullMembers(FALSE)),
      Object(<< >>),
      AllNamesArray }

BatchErrors ==
    { <<"429 ", "Quota", " exceeded">>,
      <<"503 ", "timeout">> }

InitBatch == Construct(MaxBatchKeys, BatchResponses, BatchErrors, OneRun)

NextBatch ==
    \/ process_posts_batch
    \/ SkipShort
    \/ CallExtract
    \/ ItemDone
    \/ generate_content
    \/ ServiceReturns
    \/ ServiceRaises

SpecBatch == InitBatch /\ [][NextBatch]_vars

\* ---- one processor, several calls of process_posts_batch ---------------------------
RunResponses == { Object(FullMembers(TRUE)), AllNamesArray }
RunErrors == { <<"503 ", "timeout">> }

InitRuns ==
    Construct(1, RunResponses, RunErrors,
              Workload("RunPostSeqs", 1..MaxBatchSize, MaxRuns))

SpecRuns == InitRuns /\ [][NextBatch]_vars

\* ---- the scraper session (src/lol.py) ----------------------------------------------
\* a post element of the page: its data-urn attribute as the segments between
\* the colons (no attribute: no segment), the first 50 characters of its text,
\* the text of its content element
Element(urn, preview, content) ==
    [urn |-> urn, preview |-> preview, content |-> content]
Urn(id) == <<"urn", "li", "activity", id>>
Elements ==
    { Element(Urn("a"), "p1", ContentLong),
      Element(Urn("a"), "p1", ContentPadded),
      Element(Urn("b"), "p2", ContentLong),
      Element(<< >>, "p3", ContentLong),
      Element(Urn(""), "p3", ContentLong) }
Pages == UNION {[1..n -> Elements] : n \in 0..MaxPageLen}

\* a post identifier: a data-urn's last segment, or a synthesized one
NaturalId(seg) == [kind |-> "urn", v |-> <<"segment", seg>>, n |-> 0]
SynthId(h, found) == [kind |-> "post", v |-> h, n |-> found]
\* hash(content_preview): equal previews, equal hashes
Hash(preview) == <<"hash", preview>>

\* lines 342-347: the last segment of data-urn, or, when there is none or it
\* is empty, f"post_{hash(content_preview)}_{posts_found}"
PostId(el, found) ==
    IF el.urn # << >> /\ el.urn[Len(el.urn)] # ""
    THEN NaturalId(el.urn[Len(el.urn)])
    ELSE SynthId(Hash(el.preview), found)

SeenNever(ids, id) == FALSE

\* line 350: post_id in self.scraped_post_ids
Seen(ids, id) == id \in ids

RecordOnly(ids, id) == {id}

\* line 391: self.scraped_post_ids.add(post_id)
Record(ids, id) == ids \cup {id}

ScrollWithoutCounting(sc) ==
    [sc EXCEPT !.at = "while", !.page = << >>, !.pos = 0]

\* lines 406-409 and back to the while test: the scroll after the for loop
\* (the parsed page is dropped)
Scroll(sc) ==
    [sc EXCEPT !.scroll_attempts =
                    IF sc.posts_found < sc.max_posts THEN @ + 1 ELSE @,
               !.at = "while", !.page = << >>, !.pos = 0]

\* the for loop goes on with the next post, or it ends (no post left, or the
\* break of line 397)
NextPost(sc, break) ==
    IF ~break /\ sc.pos < Len(sc.page)
    THEN [sc EXCEPT !.pos = @ + 1]
    ELSE Scroll(sc)

\* scrape_search_results(query_config, max_posts) is called: lines 303-326
scrape_search_results ==
    /\ scraper.at \in {"idle", "returned"}
    /\ scraper.query < MaxQueries
    /\ \E mp \in 1..MaxScrapePosts :
        scraper' = [scraper EXCEPT !.query = @ + 1, !.max_posts = mp,
                                   !.posts_found = 0, !.scroll_attempts = 0,
                                   !.page = << >>, !.pos = 0, !.at = "while"]
    /\ UNCHANGED <<procVars, pipeline, bot>>

\* lines 328-338: the while test holds and the page is parsed
ParsePage ==
    /\ scraper.at = "while"
    /\ scraper.posts_found < scraper.max_posts
    /\ scraper.scroll_attempts < MaxScrollAttempts
    /\ \E page \in Pages :
        scraper' = IF page = << >>
                   THEN Scroll([scraper EXCEPT !.page = page, !.pos = 0])
                   ELSE [scraper EXCEPT !.page = page, !.pos = 1, !.at = "for"]
    /\ UNCHANGED <<procVars, pipeline, bot>>

\* lines 340-401: one post of the page; the write of the row may raise, which
\* the except of line 399 turns into `continue`
HandlePost ==
    /\ scraper.at = "for"
    /\ LET el == scraper.page[scraper.pos]
           id == PostId(el, scraper.posts_found)
       IN  IF Seen(scraper.scraped_post_ids, id) \/ IsShort(el.content)
           THEN scraper' = NextPost(scraper, FALSE)
           ELSE \E written \in BOOLEAN :
                IF written
                THEN scraper' =
                        NextPost([scraper EXCEPT
                                    !.rows = Append(@, [query |-> scraper.query,
                                                        id |-> id, el |-> el]),
                                    !.scraped_post_ids = Record(@, id),
                                    !.posts_found = @ + 1],
                                 scraper.posts_found + 1 >= scraper.max_posts)
                ELSE scraper' = NextPost(scraper, FALSE)
    /\ UNCHANGED <<procVars, pipeline, bot>>

\* lines 328 and 411-412: the while test fails, the function returns
ReturnFromScrape ==
    /\ scraper.at = "while"
    /\ ~(/\ scraper.posts_found < scraper.max_posts
         /\ scraper.scroll_attempts < MaxScrollAttempts)
    /\ scraper' = [scraper EXCEPT !.at = "returned"]
    /\ UNCHANGED <<procVars, pipeline, bot>>

\* no call of the processor in the programs other than job_extractor.py
NoRun == Workload("none", {}, 0)

InitScraper == Construct(1, {}, {}, NoRun)

NextScraper ==
    \/ scrape_search_results
    \/ ParsePage
    \/ HandlePost
    \/ ReturnFromScrape

SpecScraper == InitScraper /\ [][NextScraper]_vars

\* the session is one thread: it takes its next step while it has one
SpecScraperFair == SpecScraper /\ WF_vars(NextScraper)

\* ---- run_pipeline ----------------------------------------------------------------
\* a file of the working directory
File(stem, ctime) == [stem |-> stem, ctime |-> ctime]
\* files left by earlier runs, and those the extraction step may write
OldFiles == { File("processed_jobs", 1), File("job_summary", 1) }
NewFiles == { File("processed_jobs", 2), File("job_summary", 2) }

\* glob.glob("<stem>_*")
Glob(dir, stem) == { f \in dir : f.stem = stem }
\* max(files, key=os.path.getctime)
Latest(files) == CHOOSE f \in files : \A g \in files : g.ctime <= f.ctime

\* what subprocess.run does: it returns a result with a return code, or raises
Completed(rc) == [raised |-> FALSE, returncode |-> rc]
SubprocessRaised == [raised |-> TRUE, returncode |-> -1]
NotRun == [raised |-> FALSE, returncode |-> -1]
Outcomes == { Completed(rc) : rc \in 0..MaxReturnCode } \cup { SubprocessRaised }

Command(script, args) == [script |-> script, args |-> args]
ExtractCommand == Command("job_extractor.py", << >>)
TelegramCommand(csv, summaries) ==
    IF summaries # {}
    THEN Command("telegram_bot.py", <<csv, Latest(summaries)>>)
    ELSE Command("telegram_bot.py", <<csv>>)

\* what main and run_command print and start
Step(e, desc, cmd, res) == [e |-> e, desc |-> desc, cmd |-> cmd, res |-> res]
Started(desc, cmd) == Step("begin", desc, cmd, NotRun)
Ended(desc, cmd, res) == Step("end", desc, cmd, res)
Stopped(why) == Step("stop", why, ExtractCommand, NotRun)
PipelineCompleted == Step("completed", "PIPELINE COMPLETED SUCCESSFULLY!", ExtractCommand, NotRun)

RunCommandIgnoringCode(res) == ~res.raised

\* the value run_command returns for an outcome of the subprocess
run_command(res) == ~res.raised /\ res.returncode = 0

\* main up to the subprocess of step 1
run_pipeline_main ==
    /\ pipeline.at = "start"
    /\ \E dir \in SUBSET OldFiles :
         pipeline' = [pipeline EXCEPT
                        !.at = "extract", !.dir = dir,
                        !.out = <<Started("Job Extraction", ExtractCommand)>>]
    /\ UNCHANGED <<procVars, scraper, bot>>

\* the extraction subprocess ends, having written any of its files
ExtractionEnds ==
    /\ pipeline.at = "extract"
    /\ \E res \in Outcomes, made \in SUBSET NewFiles :
         LET out == Append(pipeline.out, Ended("Job Extraction", ExtractCommand, res))
         IN  pipeline' =
               IF run_command(res)
               THEN [pipeline EXCEPT !.at = "glob", !.dir = @ \cup made, !.out = out]
               ELSE [pipeline EXCEPT
                       !.at = "returned", !.dir = @ \cup made,
                       !.out = Append(out, Stopped("Job extraction failed. Stopping pipeline."))]
    /\ UNCHANGED <<procVars, scraper, bot>>

\* step 2 and main up to the subprocess of step 3
FindFiles ==
    /\ pipeline.at = "glob"
    /\ LET csv_files == Glob(pipeline.dir, "processed_jobs")
           summary_files == Glob(pipeline.dir, "job_summary")
       IN  pipeline' =
             IF csv_files = {}
             THEN [pipeline EXCEPT
                     !.at = "returned", !.csv_files = csv_files,
                     !.summary_files = summary_files,
                     !.out = Append(@, Stopped("No processed jobs CSV file found. Cannot send notifications."))]
             ELSE [pipeline EXCEPT
                     !.at = "notify", !.csv_files = csv_files,
                     !.summary_files = summary_files,
                     !.out = Append(@, Started("Telegram Notifications",
                                 TelegramCommand(Latest(csv_files), summary_files)))]
    /\ UNCHANGED <<procVars, scraper, bot>>

\* the notification subprocess ends
NotificationEnds ==
    /\ pipeline.at = "notify"
    /\ \E res \in Outcomes :
         LET cmd == pipeline.out[Len(pipeline.out)].cmd
             out == Append(pipeline.out, Ended("Telegram Notifications", cmd, res))
         IN  pipeline' =
               [pipeline EXCEPT
                  !.at = "returned",
                  !.out = IF run_command(res)
                          THEN Append(out, PipelineCompleted)
                          ELSE Append(out, Stopped("Telegram notifications failed."))]
    /\ UNCHANGED <<procVars, scraper, bot>>

InitPipeline == Construct(1, {}, {}, NoRun)

NextPipeline ==
    \/ run_pipeline_main
    \/ ExtractionEnds
    \/ FindFiles
    \/ NotificationEnds

SpecPipeline == InitPipeline /\ [][NextPipeline]_vars

\* ---- TelegramJobBot --------------------------------------------------------------
\* a cell of the CSV as pandas reads it: a string, or NaN for an empty cell;
\* Absent: the column is not in the file
NaN == [t |-> "float", v |-> "nan"]
Absent == [t |-> "absent", v |-> ""]

Job(title, remote, skills, method) ==
    [job_title |-> title, remote_work |-> remote, skills_required |-> skills,
     application_method |-> method]

Jobs ==
    { Job(PyStr("t1"), PyStr("Remote"), PyStr("Python"), PyStr("Not specified")),
      Job(PyStr("t2"), NaN, PyStr("Not specified"), PyStr("Not specified")),
      Job(PyStr("t3"), Absent, NaN, PyStr("Not specified")) }
JobLists == UNION {[1..n -> Jobs] : n \in 0..MaxJobs}

\* the csv_file and summary_file arguments: None, or a path that exists or not
FileArgs ==
    { [given |-> FALSE, exists |-> FALSE], [given |-> TRUE, exists |-> TRUE],
      [given |-> TRUE, exists |-> FALSE] }

\* job.get(key, default)
JobGet(job, key, default) == IF job[key] = Absent THEN default ELSE job[key]

\* a message or document posted to Telegram
Message(kind, number, title, count, total) ==
    [kind |-> kind, number |-> number, title |-> title, count |-> count,
     total |-> total]

\* format_job_message: .lower() of the remote_work value and len() of the
\* skills and application values raise on a value that is not a string
format_job_message(job, job_number) ==
    LET remote == JobGet(job, "remote_work", PyStr(""))
        skills == JobGet(job, "skills_required", PyStr("Not specified"))
        method == JobGet(job, "application_method", PyStr("Not specified"))
    IN  [raised |-> \/ remote.t # "str"
                    \/ skills # PyStr("Not specified") /\ skills.t # "str"
                    \/ method # PyStr("Not specified") /\ method.t # "str",
         message |-> Message("job", job_number,
                             JobGet(job, "job_title", PyStr("Unknown")).v, 0, 0)]

create_summary_message(jobs) == Message("summary", 0, "", 0, Len(jobs))
create_completion_message(jobs, success_count) ==
    Message("completion", 0, "", success_count, Len(jobs))
Document(caption) == Message("document", 0, caption, 0, 0)

\* what requests.post does: a response with a status code, or it raises
Response(code) == [raised |-> FALSE, status_code |-> code]
PostRaised == [raised |-> TRUE, status_code |-> 0]
Replies == { Response(200), Response(429), PostRaised }

\* the value send_message and send_document return for a reply
send_message(reply) == ~reply.raised /\ reply.status_code = 200

Sent(msg, reply) == [msg |-> msg, accepted |-> send_message(reply)]

\* the call, up to the first request
send_job_notifications ==
    /\ bot.at = "start"
    /\ \E jobs \in JobLists, csv_file \in FileArgs, summary_file \in FileArgs :
         bot' = [bot EXCEPT !.at = "summary", !.jobs = jobs,
                            !.csv_file = csv_file, !.summary_file = summary_file]
    /\ UNCHANGED <<procVars, scraper, pipeline>>

\* the summary message; its result is not looked at
SendSummary ==
    /\ bot.at = "summary"
    /\ \E reply \in Replies :
         bot' = [bot EXCEPT
                   !.at = "jobs", !.i = 1, !.success_count = 0,
                   !.sent = Append(@, Sent(create_summary_message(bot.jobs), reply))]
    /\ UNCHANGED <<procVars, scraper, pipeline>>

\* one iteration of the loop over the jobs; an exception of the formatting
\* reaches the except clause of the operation, which returns False
SendJobMessage ==
    /\ bot.at = "jobs"
    /\ bot.i <= Len(bot.jobs)
    /\ LET f == format_job_message(bot.jobs[bot.i], bot.i)
       IN  IF f.raised
           THEN bot' = [bot EXCEPT !.at = "returned", !.result = "False"]
           ELSE \E reply \in Replies :
                  bot' = [bot EXCEPT
                            !.i = @ + 1,
                            !.success_count = IF send_message(reply) THEN @ + 1 ELSE @,
                            !.sent = Append(@, Sent(f.message, reply))]
    /\ UNCHANGED <<procVars, scraper, pipeline>>

\* the CSV file, when given and existing
SendCsvFile ==
    /\ bot.at = "jobs"
    /\ bot.i > Len(bot.jobs)
    /\ \E reply \in Replies :
         bot' = [bot EXCEPT
                   !.at = "summary_file",
                   !.sent = IF bot.csv_file.given /\ bot.csv_file.exists
                            THEN Append(@, Sent(Document("Complete job report (CSV format)"), reply))
                            ELSE @]
    /\ UNCHANGED <<procVars, scraper, pipeline>>

\* the summary file, when given and existing
SendSummaryFile ==
    /\ bot.at = "summary_file"
    /\ \E reply \in Replies :
         bot' = [bot EXCEPT
                   !.at = "completion",
                   !.sent = IF bot.summary_file.given /\ bot.summary_file.exists
                            THEN Append(@, Sent(Document("Job processing summary"), reply))
                            ELSE @]
    /\ UNCHANGED <<procVars, scraper, pipeline>>

\* the completion message and the return
SendCompletion ==
    /\ bot.at = "completion"
    /\ \E reply \in Replies :
         bot' = [bot EXCEPT
                   !.at = "returned",
                   !.sent = Append(@, Sent(create_completion_message(bot.jobs, bot.success_count), reply)),
                   !.result = IF bot.success_count > 0 THEN "True" ELSE "False"]
    /\ UNCHANGED <<procVars, scraper, pipeline>>

InitBot == Construct(1, {}, {}, NoRun)

NextBot ==
    \/ send_job_notifications
    \/ SendSummary
    \/ SendJobMessage
    \/ SendCsvFile
    \/ SendSummaryFile
    \/ SendCompletion

SpecBot == InitBot /\ [][NextBot]_vars

\* ---- vocabulary of the properties ------------------------------------------------
AllIndices == DOMAIN api_keys
N == Cardinality(DOMAIN api_keys)
Done == pc = "done"
IsEv(i, e) == i \in 1..Len(trace) /\ trace[i].e = e
RequestCount == Cardinality({i \in 1..Len(trace) : trace[i].e = "request"})
\* the error texts that contain quota, invalid or forbidden in some letter case
KeyErrorTexts ==
    { <<"429 ", "Quota", " exceeded">>,
      <<"API_KEY_", "INVALID">>,
      <<"403 ", "Forbidden">> }
\* a step in which _rotate_api_key ran
Rotated ==
    \E i \in (Len(trace) + 1)..Len(trace') :
        trace = SubSeq(trace', 1, Len(trace)) /\ trace'[i].e = "rotate"

\* the canonical all-default result, returned without raising
IsCanonicalDefault(r) ==
    /\ ~r.raised
    /\ r.value.kind = "dict"
    /\ DOMAIN r.value.d =
        {"company_name", "job_title", "location", "experience_required",
         "salary_range", "job_type", "skills_required", "contact_info",
         "application_method", "job_description", "remote_work", "urgency",
         "benefits", "is_valid_job"}
    /\ \A f \in DOMAIN r.value.d :
        r.value.d[f] = IF f = "urgency" THEN PyStr("Normal")
                       ELSE IF f = "is_valid_job" THEN PyBool(FALSE)
                       ELSE PyStr("Not specified")

\* C1: whenever a service request is in flight, the index of the credential it
\* was issued with is not in failed_keys.
C1_RequestKeyNotFailed ==
    pc = "inflight" => current_key_index \notin failed_keys

\* C2: a call begun when every index is in failed_keys issues no service
\* request, and an extraction begun then returns the all-default result.
C2_ExhaustedFailsFast ==
    startFailed = AllIndices /\ pc # "idle" =>
        /\ RequestCount = 0
        /\ Done /\ caller = "extract" => IsCanonicalDefault(extracted)

\* The trace of a call with the default max_retries on a fresh pool agrees with
\* "keys 0..j-1 always fail with a key error, key j succeeds".
Scenario(j) ==
    /\ Done
    /\ max_retries = DefaultMaxRetries
    /\ startFailed = {}
    /\ \A i \in 1..Len(trace) :
        /\ trace[i].e = "request" => trace[i].key <= j
        /\ trace[i].e = "error" =>
              trace[i].key < j /\ trace[i].msg \in KeyErrorTexts
        /\ trace[i].e = "success" => trace[i].key = j

RotatedThrough(j) ==
    /\ failed_keys = 0..(j - 1)
    /\ current_key_index = j
    /\ model = api_keys[j]
    /\ ~outcome.raised
    /\ trace[Len(trace)].e = "success"
    /\ trace[Len(trace)].key = j

\* C3 as stated: for every j the call marks exactly 0..j-1 failed, rotates to
\* key j and returns the response obtained with key j.
C3_RotationTransparentAnyJ ==
    \A j \in AllIndices : Scenario(j) => RotatedThrough(j)

\* C3 amended: that holds for j < max_retries; for j >= max_retries the call
\* marks 0..max_retries-1 failed, rotates to key max_retries and raises
\* "Failed after max_retries attempts" without a request to key j.
C3_RotationWithinAttempts ==
    \A j \in AllIndices : Scenario(j) =>
        IF j < DefaultMaxRetries
        THEN RotatedThrough(j)
        ELSE /\ failed_keys = 0..(DefaultMaxRetries - 1)
             /\ current_key_index = DefaultMaxRetries
             /\ outcome = Raise(FailedAfterAttempts)
             /\ RequestCount = DefaultMaxRetries
             /\ \A i \in 1..Len(trace) : trace[i].key # j

C3_Witness ==
    /\ Scenario(2)
    /\ RotatedThrough(2)
    /\ RequestCount = 3

\* C4: when _rotate_api_key has run and some index is not in failed_keys, the
\* new current_key_index is the lowest index not in failed_keys and differs
\* from the index just marked failed.
C4_RotateToLowestAvailable ==
    [][Rotated /\ AllIndices \ failed_keys' # {} =>
            /\ current_key_index \in failed_keys'
            /\ current_key_index' \notin failed_keys'
            /\ current_key_index' # current_key_index
            /\ \A j \in AllIndices \ failed_keys' : current_key_index' <= j
            /\ model' = api_keys'[current_key_index']]_vars

C4_Witness ==
    /\ N >= 3
    /\ \E i \in 1..Len(trace) :
        trace[i].e = "rotate" /\ trace[i].ok /\ trace[i].n = current_key_index
    /\ current_key_index = 1

DistinctKeys(log, n) ==
    \A a, b \in 1..n : a # b => log[a].key # log[b].key

\* C5: after N rotations on distinct indices the N-th one reports failure (the
\* earlier ones success), failed_keys is the set of all N indices, the
\* statistics read working = 0 and failed = N, and no index ever leaves
\* failed_keys.
C5_ExhaustedIsTerminal ==
    /\ [](Len(rotLog) >= N /\ DistinctKeys(rotLog, N) =>
            /\ ~rotLog[N].ok
            /\ \A k \in 1..(N - 1) : rotLog[k].ok
            /\ failed_keys = AllIndices
            /\ get_api_key_stats(api_keys, current_key_index,
                                 failed_keys).working = 0
            /\ get_api_key_stats(api_keys, current_key_index,
                                 failed_keys).failed = N
            /\ get_api_key_stats(api_keys, current_key_index,
                                 failed_keys).total = N)
    /\ [][failed_keys \subseteq failed_keys']_vars

C5_Witness ==
    /\ N >= 3
    /\ Len(rotLog) > N
    /\ DistinctKeys(rotLog, N)
    /\ failed_keys = AllIndices

\* what follows a key error at position i of the trace: the rotation marking
\* the credential the request used
MarksActiveFailed(i) ==
    /\ IsEv(i + 1, "rotate")
    /\ trace[i + 1].key = trace[i].key
    /\ trace[i].key \in failed_keys
    /\ trace[i + 1].ok <=> (AllIndices \ (startFailed \cup
            {trace[k].key : k \in {m \in 1..(i + 1) : trace[m].e = "rotate"}})
                # {})

\* the call goes on, without a sleep, with a request to the rotated-to credential
RetriedWithNewKey(i) ==
    /\ i + 2 <= Len(trace) =>
            /\ trace[i + 2].e = "request"
            /\ trace[i + 2].key = trace[i + 1].n
            /\ trace[i + 2].key # trace[i].key
            /\ trace[i + 2].at = trace[i].at + 1
    /\ i + 1 = Len(trace) =>
            /\ pc = "loop"
            /\ current_key_index = trace[i + 1].n
            /\ attempt = trace[i].at + 1

RaisedAt(i, e) ==
    /\ i = Len(trace)
    /\ Done
    /\ outcome = Raise(e)

\* C6 as stated: a key error marks the active credential failed; a successful
\* rotation is followed, with no sleep, by a retry with the new credential; a
\* failed rotation raises "All API keys exhausted" with no further request.
C6_KeyErrorRotatesAndRetries ==
    \A i \in 1..Len(trace) :
        trace[i].e = "error" /\ trace[i].msg \in KeyErrorTexts =>
            /\ MarksActiveFailed(i)
            /\ IF trace[i + 1].ok
               THEN RetriedWithNewKey(i)
               ELSE RaisedAt(i + 1, AllKeysExhausted)

\* C6 amended: the retry follows a successful rotation at a loop index below
\* max_retries - 1; after a successful rotation at the last loop index the call
\* raises "Failed after max_retries attempts" with no further request.
C6_KeyErrorRotatesWithinAttempts ==
    \A i \in 1..Len(trace) :
        trace[i].e = "error" /\ trace[i].msg \in KeyErrorTexts =>
            /\ MarksActiveFailed(i)
            /\ IF ~trace[i + 1].ok
               THEN RaisedAt(i + 1, AllKeysExhausted)
               ELSE IF trace[i].at < max_retries - 1
               THEN RetriedWithNewKey(i)
               ELSE RaisedAt(i + 1, FailedAfterAttempts)

C6_Witness ==
    /\ Done
    /\ max_retries = 3
    /\ Len(trace) = 6
    /\ trace[2].e = "error" /\ trace[2].msg = <<"429 ", "Quota", " exceeded">>
    /\ trace[3].e = "rotate" /\ trace[3].ok
    /\ trace[4].e = "request" /\ trace[4].key = 1
    /\ trace[5].e = "error" /\ trace[5].msg = <<"API_KEY_", "INVALID">>
    /\ trace[6].e = "rotate" /\ ~trace[6].ok
    /\ outcome = Raise(AllKeysExhausted)

\* a step in which a request failed with an error that is no key error
OtherErrorStep ==
    \E i \in (Len(trace) + 1)..Len(trace') :
        /\ trace = SubSeq(trace', 1, Len(trace))
        /\ trace'[i].e = "error"
        /\ trace'[i].msg \notin KeyErrorTexts

\* C7: an error that is no key error leaves current_key_index and failed_keys
\* unchanged; at loop index a < max_retries - 1 it is followed by one sleep of
\* 2^a and a retry with the same credential; at the last loop index the error
\* is propagated and no sleep is taken.
C7_OtherErrorBacksOff ==
    /\ [](\A i \in 1..Len(trace) :
            trace[i].e = "error" /\ trace[i].msg \notin KeyErrorTexts =>
                IF trace[i].at < max_retries - 1
                THEN /\ IsEv(i + 1, "sleep")
                     /\ trace[i + 1].n = 2 ^ trace[i].at
                     /\ i + 2 <= Len(trace) =>
                            /\ trace[i + 2].e = "request"
                            /\ trace[i + 2].key = trace[i].key
                            /\ trace[i + 2].at = trace[i].at + 1
                     /\ i + 1 = Len(trace) =>
                            /\ pc = "loop"
                            /\ current_key_index = trace[i].key
                ELSE RaisedAt(i, Exc("ServiceError", trace[i].msg)))
    /\ [][OtherErrorStep =>
            UNCHANGED <<current_key_index, failed_keys, model>>]_vars

C7_Witness ==
    /\ Done
    /\ max_retries = 3
    /\ Len(trace) = 8
    /\ trace[3].e = "sleep" /\ trace[3].n = 1
    /\ trace[6].e = "sleep" /\ trace[6].n = 2
    /\ trace[8].e = "error"
    /\ outcome = Raise(Exc("ServiceError", <<"503 ", "timeout">>))

IsWs(c) == c = Ch(" ") \/ c = Ch("\n")

\* value is raw without its leading and trailing whitespace
TrimmedOf(value, raw) ==
    /\ value = <<>> \/ (~IsWs(value[1]) /\ ~IsWs(value[Len(value)]))
    /\ \E a \in 0..Len(raw) :
        /\ a + Len(value) <= Len(raw)
        /\ value = SubSeq(raw, a + 1, a + Len(value))
        /\ \A k \in 1..a : IsWs(raw[k])
        /\ \A k \in (a + Len(value) + 1)..Len(raw) : IsWs(raw[k])

\* C8: a finished call (max_retries >= 1) has issued between 1 and max_retries
\* requests; no event follows a success; such a call returns the trimmed text
\* of that success, and a call that returned has a success as its last event.
C8_BoundedRequestsFirstSuccessReturned ==
    /\ RequestCount <= max_retries
    /\ Done => RequestCount >= 1
    /\ \A i \in 1..Len(trace) :
        trace[i].e = "success" =>
            /\ i = Len(trace)
            /\ Done
            /\ ~outcome.raised
            /\ TrimmedOf(outcome.value, trace[i].text)
    /\ Done /\ ~outcome.raised => trace[Len(trace)].e = "success"

C8_Witness ==
    /\ Done
    /\ ~outcome.raised
    /\ RequestCount = 3
    /\ trace[Len(trace)].text = <<Space>> \o Object(PartialMembers) \o <<Newline>>
    /\ outcome.value = Object(PartialMembers)

\* C9: extract_job_details never raises and always returns a mapping that has
\* all fourteen fields.
C9_ExtractTotalWithAllFields ==
    Done /\ caller = "extract" =>
        /\ ~extracted.raised
        /\ extracted.value.kind = "dict"
        /\ RequiredFieldSet \subseteq DOMAIN extracted.value.d

\* C10: when the retrying call raised (attempts exhausted, all keys exhausted,
\* error propagated) or json.loads raises on the cleaned response,
\* extract_job_details returns the canonical all-default result and does not
\* raise.
C10_FailureGivesCanonicalDefault ==
    Done /\ caller = "extract" =>
        (outcome.raised \/ JsonLoads(CleanResponse(outcome.value)).raised =>
            IsCanonicalDefault(extracted))

C10_Witness ==
    /\ Done
    /\ caller = "extract"
    /\ ~outcome.raised
    /\ outcome.value = <<Ch("S"), Ch("o"), Ch("r"), Ch("r"), Ch("y")>>
    /\ IsCanonicalDefault(extracted)

\* ---- responses that carry a JSON object ------------------------------------------
\* the text of the last success of the trace
RawResponse == trace[Len(trace)].text
Extracted == Done /\ caller = "extract" /\ ~outcome.raised

AllWs(s) == \A i \in 1..Len(s) : IsWs(s[i])
Braces(raw) == {i \in 1..Len(raw) : raw[i] = Ch("{") \/ raw[i] = Ch("}")}
FirstBrace(raw) == CHOOSE i \in Braces(raw) : \A j \in Braces(raw) : i <= j
LastBrace(raw) == CHOOSE i \in Braces(raw) : \A j \in Braces(raw) : j <= i
Before(raw) == SubSeq(raw, 1, FirstBrace(raw) - 1)
After(raw) == SubSeq(raw, LastBrace(raw) + 1, Len(raw))
\* the members between the braces
PayloadMembers(raw) == SubSeq(raw, FirstBrace(raw) + 1, LastBrace(raw) - 1)
HasObject(raw) ==
    /\ Braces(raw) # {}
    /\ raw[FirstBrace(raw)] = Ch("{")
    /\ raw[LastBrace(raw)] = Ch("}")
    /\ \A i \in 1..Len(PayloadMembers(raw)) : PayloadMembers(raw)[i].t = "member"
\* s is pre followed by whitespace only
IsPrefixThenWs(s, pre) ==
    /\ Len(s) >= Len(pre)
    /\ SubSeq(s, 1, Len(pre)) = pre
    /\ AllWs(SubSeq(s, Len(pre) + 1, Len(s)))
IsBare(raw) == HasObject(raw) /\ AllWs(Before(raw)) /\ AllWs(After(raw))
IsFenced(raw, open) ==
    /\ HasObject(raw)
    /\ IsPrefixThenWs(Before(raw), open)
    /\ \E a \in 0..Len(After(raw)) :
        /\ AllWs(SubSeq(After(raw), 1, a))
        /\ SubSeq(After(raw), a + 1, Len(After(raw))) =
                <<Backtick, Backtick, Backtick>>
JsonFenceText ==
    <<Backtick, Backtick, Backtick, Ch("j"), Ch("s"), Ch("o"), Ch("n")>>
PlainFenceText == <<Backtick, Backtick, Backtick>>
PayloadKeys(raw) ==
    {PayloadMembers(raw)[i].k : i \in 1..Len(PayloadMembers(raw))}
PayloadValue(raw, f) ==
    PayloadMembers(raw)[CHOOSE i \in 1..Len(PayloadMembers(raw)) :
        /\ PayloadMembers(raw)[i].k = f
        /\ \A j \in (i + 1)..Len(PayloadMembers(raw)) :
                PayloadMembers(raw)[j].k # f].v
FourteenFields ==
    {"company_name", "job_title", "location", "experience_required",
     "salary_range", "job_type", "skills_required", "contact_info",
     "application_method", "job_description", "remote_work", "urgency",
     "benefits", "is_valid_job"}

\* C11: when the response parses to an object, the result has the parsed value
\* of every field present and, for every absent field, the documented default:
\* "Normal" for urgency, a boolean for is_valid_job, "Not specified" otherwise.
C11_AbsentFieldsGetDocumentedDefaults ==
    Extracted /\ (\/ IsBare(RawResponse)
                  \/ IsFenced(RawResponse, JsonFenceText)
                  \/ IsFenced(RawResponse, PlainFenceText)) =>
        /\ ~extracted.raised
        /\ extracted.value.kind = "dict"
        /\ DOMAIN extracted.value.d = FourteenFields \cup PayloadKeys(RawResponse)
        /\ \A f \in DOMAIN extracted.value.d :
            IF f \in PayloadKeys(RawResponse)
            THEN extracted.value.d[f] = PayloadValue(RawResponse, f)
            ELSE IF f = "urgency" THEN extracted.value.d[f] = PyStr("Normal")
            ELSE IF f = "is_valid_job" THEN extracted.value.d[f].t = "bool"
            ELSE extracted.value.d[f] = PyStr("Not specified")

\* the result extract_job_details gives for the bare object: its members, and
\* "Not specified" for every one of the fourteen fields it lacks
ResultOfBare(raw) ==
    [f \in FourteenFields \cup PayloadKeys(raw) |->
        IF f \in PayloadKeys(raw) THEN PayloadValue(raw, f)
        ELSE PyStr("Not specified")]

\* C12: a JSON object gives the same result bare, in a json fence and in a
\* plain fence: the result built from exactly the members of the object.
C12_FenceTransparent ==
    Extracted /\ (\/ IsBare(RawResponse)
                  \/ IsFenced(RawResponse, JsonFenceText)
                  \/ IsFenced(RawResponse, PlainFenceText)) =>
        /\ ~extracted.raised
        /\ extracted.value.kind = "dict"
        /\ extracted.value.d = ResultOfBare(RawResponse)

C12_Witness ==
    /\ Extracted
    /\ IsFenced(RawResponse, JsonFenceText)
    /\ Len(Before(RawResponse)) = 8
    /\ PayloadKeys(RawResponse) = {"company_name", "job_title", "is_valid_job"}
    /\ extracted.value.d["job_title"] = PyStr("Engineer")
    /\ extracted.value.d["is_valid_job"] = PyBool(TRUE)

\* ---- vocabulary of the properties of a run ------------------------------------------
Returned == rpc = "returned"
NPosts == Len(posts)
OutcomeKinds == {"skip", "append", "drop", "fail"}
\* positions of the run's log with an event e about item idx
EventsOf(e, idx) ==
    {k \in 1..Len(runLog) : runLog[k].e = e /\ runLog[k].idx = idx}
OutcomesOf(idx) ==
    {k \in 1..Len(runLog) : runLog[k].e \in OutcomeKinds /\ runLog[k].idx = idx}
Positions(e) == {k \in 1..Len(runLog) : runLog[k].e = e}
\* the jobs gathered so far, in order
Collected == IF Returned THEN returned ELSE processed_jobs \o batch_results
CountSrc(seq, idx) == Cardinality({k \in 1..Len(seq) : seq[k].src = idx})
\* the positions of the characters of a text that are not whitespace
Inked(text) == {k \in 1..Len(text) : ~IsWs(text[k])}
\* the length of a text between its first and its last such character
TrimmedLen(text) ==
    IF Inked(text) = {} THEN 0
    ELSE (CHOOSE k \in Inked(text) : \A j \in Inked(text) : j <= k)
         - (CHOOSE k \in Inked(text) : \A j \in Inked(text) : j >= k) + 1
\* the content of a post is absent or has fewer than 20 characters after
\* trimming
ShortContent(post) ==
    \/ "Content" \notin DOMAIN post
    \/ TrimmedLen(post["Content"]) < 20

\* C13: every job gathered comes from an extraction whose validity flag is
\* true, and an item whose flag is false is dropped: not gathered, not in the
\* failure ledger.
C13_OnlyValidFlagProcessed ==
    /\ \A k \in 1..Len(Collected) :
        \E a \in EventsOf("append", Collected[k].src) :
            runLog[a].flag = PyBool(TRUE)
    /\ \A k \in 1..Len(runLog) :
        /\ runLog[k].e = "append" => runLog[k].flag = PyBool(TRUE)
        /\ runLog[k].e \in OutcomeKinds /\ runLog[k].flag = PyBool(FALSE) =>
            /\ runLog[k].e = "drop"
            /\ CountSrc(Collected, runLog[k].idx) = 0
            /\ CountSrc(failed_posts, runLog[k].idx) = 0

\* a step in which an item is skipped as too short
SkipStep ==
    /\ Len(runLog') > Len(runLog)
    /\ runLog'[Len(runLog) + 1].e = "skip"

\* C14: an item whose content is absent, empty or shorter than 20 characters
\* after trimming is skipped: no extraction call and no service request is
\* made for it, nothing joins the gathered jobs or the failure ledger.
C14_ShortContentSkipped ==
    /\ [](\A idx \in 1..NPosts :
            ShortContent(posts[idx]) =>
                /\ EventsOf("extract", idx) = {}
                /\ Cardinality(OutcomesOf(idx)) <= 1
                /\ \A k \in OutcomesOf(idx) : runLog[k].e = "skip"
                /\ CountSrc(Collected, idx) = 0
                /\ CountSrc(failed_posts, idx) = 0
                /\ (Returned \/ idx < i_batch + post_ix) =>
                        Cardinality(EventsOf("skip", idx)) = 1)
    /\ [][SkipStep =>
            /\ ShortContent(posts[i_batch + post_ix])
            /\ UNCHANGED <<pc, trace, attempt, outcome, extracted,
                           failed_posts, failed_keys, current_key_index>>
            /\ Len(Collected') = Len(Collected)]_vars

C14_Witness ==
    /\ Returned
    /\ NPosts = 3
    /\ posts[1] = [Content |-> ContentPadded]
    /\ posts[2] = << >>
    /\ posts[3] = [Content |-> ContentLong]
    /\ EventsOf("skip", 1) # {}
    /\ EventsOf("skip", 2) # {}
    /\ EventsOf("append", 3) # {}

\* C15: every item ends in exactly one outcome: gathered exactly once,
\* skipped or dropped without a record, or in the failure ledger exactly once;
\* never both gathered and in the ledger; extract_job_details is called at
\* most once for it.
C15_EachItemAccountedOnce ==
    \A idx \in 1..NPosts :
        /\ Cardinality(OutcomesOf(idx)) <= 1
        /\ Cardinality(EventsOf("extract", idx)) <= 1
        /\ Returned => Cardinality(OutcomesOf(idx)) = 1
        /\ CountSrc(Collected, idx) =
                IF EventsOf("append", idx) # {} THEN 1 ELSE 0
        /\ CountSrc(failed_posts, idx) =
                IF EventsOf("fail", idx) # {} THEN 1 ELSE 0
        /\ CountSrc(Collected, idx) + CountSrc(failed_posts, idx) <= 1
        /\ EventsOf("skip", idx) # {} => EventsOf("extract", idx) = {}

C15_Witness ==
    /\ Returned
    /\ NPosts = 3
    /\ batch_size = 2
    /\ EventsOf("append", 1) # {}
    /\ EventsOf("fail", 2) # {}
    /\ EventsOf("drop", 3) # {}
    /\ Len(returned) = 1
    /\ Len(failed_posts) = 1

\* the k-th position (in order) of the log with a batch event
BatchAt(k) ==
    CHOOSE p \in Positions("batch") :
        Cardinality({q \in Positions("batch") : q < p}) = k - 1
CeilDiv(n, d) == (n + d - 1) \div d

\* C16: the run makes ceil(len(posts)/batch_size) batch iterations over
\* contiguous slices in input order, each of batch_size items except possibly
\* the last, which together are the input; the items are handled inside
\* their batch.
C16_ContiguousBatches ==
    /\ Cardinality(Positions("batch")) <= CeilDiv(NPosts, batch_size)
    /\ Returned => Cardinality(Positions("batch")) = CeilDiv(NPosts, batch_size)
    /\ \A k \in 1..Cardinality(Positions("batch")) :
        /\ runLog[BatchAt(k)].lo = (k - 1) * batch_size + 1
        /\ runLog[BatchAt(k)].hi =
                IF k * batch_size < NPosts THEN k * batch_size ELSE NPosts
        /\ runLog[BatchAt(k)].hi >= runLog[BatchAt(k)].lo
        /\ \A q \in 1..Len(runLog) :
            /\ runLog[q].e \in OutcomeKinds
            /\ runLog[q].idx \in runLog[BatchAt(k)].lo..runLog[BatchAt(k)].hi
            => /\ q > BatchAt(k)
               /\ k < Cardinality(Positions("batch")) => q < BatchAt(k + 1)
    /\ Returned => \A idx \in 1..NPosts : OutcomesOf(idx) # {}

C16_Witness ==
    /\ Returned
    /\ NPosts = 3
    /\ batch_size = 2
    /\ Cardinality(Positions("batch")) = 2
    /\ runLog[BatchAt(2)].lo = 3
    /\ runLog[BatchAt(2)].hi = 3

\* C17: the gathered jobs are in input order, across batch boundaries too.
C17_ProcessedKeepsInputOrder ==
    \A a, b \in 1..Len(Collected) :
        a < b => Collected[a].src < Collected[b].src

C17_Witness ==
    /\ Returned
    /\ batch_size = 1
    /\ Len(returned) = 3
    /\ returned[1].src = 1
    /\ returned[3].src = 3

\* C18: a run of k batches pauses k - 1 times (never for an empty input), each
\* pause of the fixed delay right after the results of a batch were gathered
\* and right before the next batch begins; no pause follows the last batch.
C18_PauseBetweenBatchesOnly ==
    /\ \A p \in Positions("pause") :
        /\ runLog[p].lo = 2
        /\ p > 1 /\ runLog[p - 1].e = "extend"
        /\ p < Len(runLog) /\ runLog[p + 1].e = "batch"
    /\ \A p \in Positions("batch") :
        p > 1 => runLog[p - 1].e = "pause"
    /\ Returned =>
        Cardinality(Positions("pause")) =
            IF NPosts = 0 THEN 0 ELSE Cardinality(Positions("batch")) - 1

C18_Witness ==
    /\ Returned
    /\ NPosts = 3
    /\ batch_size = 1
    /\ Cardinality(Positions("pause")) = 2
    /\ runLog[Len(runLog) - 1].e = "extend"

\* the run under the scheduling of its one thread: the thread takes its next
\* step while it has one, and a request in flight ends.  ServiceReturns and
\* ServiceRaises are enabled in the same states (a request is in flight), so
\* weak fairness of ServiceRaises says no more than that the request ends, by
\* a response or by an error.
SpecBatchFair ==
    /\ SpecBatch
    /\ WF_vars(SkipShort)
    /\ WF_vars(CallExtract)
    /\ WF_vars(ItemDone)
    /\ WF_vars(generate_content)
    /\ WF_vars(ServiceRaises)

\* C19: every run ends, it ends by returning the jobs gathered, and it never
\* raises, whatever the service answers and also when every key has failed.
C19_RunTerminatesWithoutRaising ==
    /\ [](rpc # "raised")
    /\ [](Returned => returned = processed_jobs)
    /\ (rpc \in {"item", "extracting"}) ~> Returned

C19_Witness ==
    /\ Returned
    /\ NPosts = 3
    /\ failed_keys = DOMAIN api_keys
    /\ Cardinality(DOMAIN api_keys) = 2
    /\ Len(failed_posts) = 1
    /\ Len(returned) = 1

\* C20: an exception while an item is handled puts the item in the failure
\* ledger, adds nothing for it to the gathered jobs, and the run goes on with
\* the next item, in the same batch or a later one.
C20_ItemErrorContained ==
    \A k \in Positions("fail") :
        /\ CountSrc(failed_posts, runLog[k].idx) = 1
        /\ \E f \in 1..Len(failed_posts) :
            failed_posts[f] = [src |-> runLog[k].idx,
                               post |-> posts[runLog[k].idx]]
        /\ CountSrc(Collected, runLog[k].idx) = 0
        /\ rpc # "raised"
        /\ IF runLog[k].idx < NPosts
           THEN \/ OutcomesOf(runLog[k].idx + 1) # {}
                \/ EventsOf("extract", runLog[k].idx + 1) # {}
                \/ rpc = "item" /\ i_batch + post_ix = runLog[k].idx + 1
           ELSE Returned

C20_Witness ==
    /\ Returned
    /\ NPosts = 3
    /\ batch_size = 2
    /\ EventsOf("fail", 1) # {}
    /\ EventsOf("append", 2) # {}
    /\ EventsOf("append", 3) # {}
    /\ Len(failed_posts) = 1
    /\ Len(returned) = 2

\* the k-th position (in order) of the log with a fail event
FailAt(k) ==
    CHOOSE p \in Positions("fail") :
        Cardinality({q \in Positions("fail") : q < p}) = k - 1

\* C21: the failures a run reports are exactly the items that raised during
\* that run, in input order; a second run on the same processor does not
\* report the failures of the first.
C21_FailuresAreThoseOfTheRun ==
    Returned =>
        /\ Len(failed_posts) = Cardinality(Positions("fail"))
        /\ \A k \in 1..Len(failed_posts) :
            k <= Cardinality(Positions("fail")) =>
                failed_posts[k] = [src |-> runLog[FailAt(k)].idx,
                                   post |-> posts[runLog[FailAt(k)].idx]]

\* C25: after construction api_keys is never changed, by no operation: each
\* credential keeps its index (0..N-1), the statistics keep reporting the same
\* total; only current_key_index and failed_keys vary.
C25_CredentialListStable ==
    /\ [][/\ api_keys' = api_keys
          /\ get_api_key_stats(api_keys', current_key_index', failed_keys').total
                = get_api_key_stats(api_keys, current_key_index, failed_keys).total]_vars
    /\ [](/\ DOMAIN api_keys = 0..(N - 1)
          /\ \A i, j \in DOMAIN api_keys : api_keys[i] = api_keys[j] => i = j)

C25_Witness ==
    /\ Returned
    /\ N = 2
    /\ NPosts = 3
    /\ current_key_index = 1
    /\ failed_keys = {0, 1}
    /\ get_api_key_stats(api_keys, current_key_index, failed_keys) =
            [total |-> 2, failed |-> 2, working |-> 0, current |-> 2]

\* a step in which a service request ended with a response
SuccessStep ==
    /\ Len(trace') = Len(trace) + 1
    /\ trace'[Len(trace')].e = "success"
\* a step in which a service request ended with an error
FailureStep ==
    /\ Len(trace') > Len(trace)
    /\ trace'[Len(trace) + 1].e = "error"

\* C26: current_key_index is in 0..N-1 and failed_keys is a subset of 0..N-1
\* in every state; a successful request changes neither, a failed request adds
\* at most the index that was active to failed_keys.
C26_PoolIndicesInRange ==
    /\ [](/\ N >= 1
          /\ current_key_index \in 0..(N - 1)
          /\ failed_keys \subseteq 0..(N - 1))
    /\ [][SuccessStep => UNCHANGED <<current_key_index, failed_keys>>]_vars
    /\ [][FailureStep =>
            /\ failed_keys \subseteq failed_keys'
            /\ failed_keys' \subseteq failed_keys \cup {current_key_index}]_vars

C26_Witness ==
    /\ Done
    /\ N = 3
    /\ ~outcome.raised
    /\ failed_keys = {0, 1}
    /\ current_key_index = 2
    /\ IsEv(Len(trace), "success")

\* the positions of the trace with a backoff sleep
Sleeps == {i \in 1..Len(trace) : trace[i].e = "sleep"}
RECURSIVE SumOfSleeps(_)
SumOfSleeps(S) ==
    IF S = {} THEN 0
    ELSE LET i == CHOOSE k \in S : TRUE
         IN  trace[i].n + SumOfSleeps(S \ {i})

\* C27: within one call with max_retries = m a sleep is taken only after an
\* error that is no key error, at a loop index below m - 1; the durations are
\* strictly increasing powers of two and their sum is at most 2^(m-1) - 1.
C27_BackoffBounded ==
    /\ \A i \in Sleeps :
        /\ i > 1
        /\ trace[i - 1].e = "error"
        /\ trace[i - 1].msg \notin KeyErrorTexts
        /\ trace[i].at = trace[i - 1].at
        /\ trace[i].at < max_retries - 1
        /\ trace[i].n = 2 ^ trace[i].at
    /\ \A i, j \in Sleeps : i < j => trace[i].n < trace[j].n
    /\ SumOfSleeps(Sleeps) <= 2 ^ (max_retries - 1) - 1
    /\ max_retries = 3 => SumOfSleeps(Sleeps) <= 3

C27_Witness ==
    /\ Done
    /\ max_retries = 3
    /\ \E r \in 1..Len(trace) : trace[r].e = "rotate" /\ trace[r].at = 0
    /\ \E i \in Sleeps : trace[i].at = 1 /\ trace[i].n = 2
    /\ SumOfSleeps(Sleeps) = 2

\* ---- vocabulary of the properties of a scraper session -----------------------------
Ids == scraper.scraped_post_ids
Rows == scraper.rows
\* the post the for loop is at, and the identifier it gets
Sighted == scraper.page[scraper.pos]
SightedId == PostId(Sighted, scraper.posts_found)
\* a step of the for loop: the dedup check and what follows it for one post
SightingStep == scraper.at = "for" /\ scraper' # scraper
NoRowTwice == \A i, j \in 1..Len(Rows) : Rows[i].id = Rows[j].id => i = j

\* C22: the dedup check admits an identifier the first time it is seen and
\* records it, and rejects it on every later sighting; no identifier is
\* written more than once per session.
C22_FirstSightingRecorded ==
    /\ [][SightingStep =>
            /\ SightedId \notin Ids => SightedId \in scraper'.scraped_post_ids
            /\ SightedId \in Ids =>
                    /\ scraper'.scraped_post_ids = Ids
                    /\ scraper'.rows = Rows]_vars
    /\ []NoRowTwice

\* C22 as amended: an identifier is recorded when its row is written; every
\* sighting of a recorded identifier is rejected; a sighting of a new
\* identifier either writes one row and records it or, when the content is
\* too short (always) or the write fails, does neither; no identifier is
\* written more than once per session.
C22_RecordedWhenWritten ==
    /\ [][SightingStep =>
            IF SightedId \in Ids \/ TrimmedLen(Sighted.content) < 20
            THEN /\ scraper'.scraped_post_ids = Ids
                 /\ scraper'.rows = Rows
            ELSE \/ /\ scraper'.scraped_post_ids = Ids \cup {SightedId}
                    /\ scraper'.rows =
                            Append(Rows, [query |-> scraper.query,
                                          id |-> SightedId, el |-> Sighted])
                 \/ /\ scraper'.scraped_post_ids = Ids
                    /\ scraper'.rows = Rows]_vars
    /\ []NoRowTwice
    /\ [](Ids = {Rows[i].id : i \in 1..Len(Rows)})

C22_Witness ==
    /\ scraper.at = "for"
    /\ scraper.query = 2
    /\ Len(Rows) = 2
    /\ Rows[1].query = 1
    /\ Rows[1].id = NaturalId("a")
    /\ Rows[2].id = NaturalId("b")
    /\ SightedId = NaturalId("a")

\* C23: the identifier synthesized for a post without a natural identifier
\* depends on its content alone: the same such post gets the same identifier
\* at every sighting and is written at most once per session.
C23_SynthesizedIdFromContentAlone ==
    \A i, j \in 1..Len(Rows) :
        /\ Rows[i].id.kind = "post"
        /\ Rows[j].id.kind = "post"
        /\ Rows[i].el = Rows[j].el
        => /\ Rows[i].id = Rows[j].id
           /\ i = j

\* C24: scraped_post_ids is empty when the session starts and no step of the
\* session removes an identifier from it.
C24_SeenSetOnlyGrows ==
    /\ [][Ids \subseteq scraper'.scraped_post_ids]_vars
    /\ [](scraper.query = 0 => Ids = {})

C24_Witness ==
    /\ scraper.at = "returned"
    /\ scraper.query = 2
    /\ Cardinality(Ids) = 3
    /\ Rows[1].query = 1
    /\ Rows[3].query = 2

\* the rows written for the query that is running
RowsOfQuery == {i \in 1..Len(Rows) : Rows[i].query = scraper.query}
\* a step that ends an iteration of the while loop
IterationEnds ==
    /\ scraper.at \in {"while", "for"}
    /\ scraper'.at = "while"

\* C28: every call of scrape_search_results returns; it makes at most 8 scroll
\* attempts and writes at most max_posts rows; every iteration of its loop
\* reaches max_posts or increases scroll_attempts; the rows written in the
\* session are as many as the identifiers in scraped_post_ids.
C28_ScrapeTerminates ==
    /\ [](/\ scraper.scroll_attempts <= 8
          /\ scraper.posts_found <= scraper.max_posts
          /\ Cardinality(RowsOfQuery) <= scraper.max_posts
          /\ scraper.at # "idle" => Cardinality(RowsOfQuery) = scraper.posts_found
          /\ Len(Rows) = Cardinality(Ids))
    /\ [][IterationEnds =>
            \/ scraper'.posts_found >= scraper.max_posts
            \/ scraper'.scroll_attempts = scraper.scroll_attempts + 1]_vars
    /\ (scraper.at \in {"while", "for"}) ~> (scraper.at = "returned")

C28_Witness ==
    /\ scraper.at = "returned"
    /\ scraper.query = 2
    /\ scraper.max_posts = 2
    /\ scraper.scroll_attempts = 8
    /\ scraper.posts_found = 1
    /\ Len(Rows) = 3

\* ---- run_pipeline: the order of the steps ----------------------------------------
\* the positions of the output where a step was started, ended well, reported
StartsOf(desc) ==
    { k \in 1..Len(pipeline.out) :
        pipeline.out[k].e = "begin" /\ pipeline.out[k].desc = desc }
EndsWithZero(desc) ==
    { k \in 1..Len(pipeline.out) :
        /\ pipeline.out[k].e = "end"
        /\ pipeline.out[k].desc = desc
        /\ ~pipeline.out[k].res.raised
        /\ pipeline.out[k].res.returncode = 0 }
EndsBadly(desc) ==
    { k \in 1..Len(pipeline.out) :
        /\ pipeline.out[k].e = "end"
        /\ pipeline.out[k].desc = desc
        /\ pipeline.out[k].res.raised \/ pipeline.out[k].res.returncode # 0 }
Reports == { k \in 1..Len(pipeline.out) : pipeline.out[k].e = "completed" }
CsvExists == \E f \in pipeline.dir : f.stem = "processed_jobs"

\* C29: the notification step is started only after the extraction step ended
\* with return code 0 and with a processed_jobs CSV in the directory; when the
\* extraction step fails (non-zero code or no result), or when it succeeded and
\* the search finds no CSV, main has returned and no notification step was
\* started; success is reported only after both steps ended with code 0.
C29_NotificationOnlyAfterExtraction ==
    /\ \A k \in StartsOf("Telegram Notifications") :
         /\ \E j \in EndsWithZero("Job Extraction") : j < k
         /\ CsvExists
    /\ EndsBadly("Job Extraction") # {} =>
         pipeline.at = "returned" /\ StartsOf("Telegram Notifications") = {}
    /\ pipeline.at \in {"notify", "returned"} /\ ~CsvExists =>
         pipeline.at = "returned" /\ StartsOf("Telegram Notifications") = {}
    /\ \A k \in Reports :
         /\ \E j \in EndsWithZero("Job Extraction") : j < k
         /\ \E j \in EndsWithZero("Telegram Notifications") : j < k
         /\ pipeline.at = "returned"

\* a pipeline that reported success, with both steps in its output
C29_Witness ==
    /\ pipeline.at = "returned"
    /\ Reports # {}
    /\ StartsOf("Telegram Notifications") # {}

\* ---- TelegramJobBot: the order of the messages -----------------------------------
NJobs == Len(bot.jobs)
\* the job messages Telegram accepted
AcceptedJobs ==
    { k \in 1..Len(bot.sent) : bot.sent[k].msg.kind = "job" /\ bot.sent[k].accepted }

\* C30: when send_job_notifications has returned, what it sent is the summary
\* message, then one message per job in input order, then the documents, then
\* the completion message; the count of the completion message is the number
\* of job messages accepted, and the result is true exactly when at least one
\* job message was accepted.
C30_MessagesInOrder ==
    bot.at = "returned" =>
      /\ Len(bot.sent) >= NJobs + 2
      /\ bot.sent[1].msg.kind = "summary"
      /\ \A k \in 1..NJobs :
           /\ bot.sent[1 + k].msg.kind = "job"
           /\ bot.sent[1 + k].msg.number = k
           /\ bot.sent[1 + k].msg.title = bot.jobs[k].job_title.v
      /\ \A k \in (NJobs + 2)..(Len(bot.sent) - 1) : bot.sent[k].msg.kind = "document"
      /\ bot.sent[Len(bot.sent)].msg.kind = "completion"
      /\ bot.sent[Len(bot.sent)].msg.count = Cardinality(AcceptedJobs)
      /\ bot.result = "True" <=> AcceptedJobs # {}

====
